---------------------------- MODULE Spec2Model ----------------------------
(***************************************************************************)
(* Model of the Game screen of FingerChooserApp (src/unnamed/part_000):    *)
(* the contact registry fed by the PanResponder handlers, the color map,   *)
(* and the selection sequencer started by Pick Finger with its four timers *)
(* (cycling interval, outcome timeout, blink interval, cooldown timeout).  *)
(*                                                                         *)
(* All handlers and timer callbacks run on one JavaScript thread, so each  *)
(* is one atomic action.  State setters are applied before the next        *)
(* handler runs (React re-renders between events), so a handler reads the  *)
(* current state.  Timer callbacks are closures: they keep the values      *)
(* captured when Pick Finger ran (activeFingers, currentIndex, ...), which *)
(* is what a session record holds.  Animated values and the winner sound   *)
(* carry no state any handler reads back; they are left out.  The tap cue  *)
(* player is kept as tapSound: it is "unloaded" until loadSounds has       *)
(* resolved (for good when loading fails), playTapSound starts it only     *)
(* when it is loaded, and it plays to its end on its own.                  *)
(*                                                                         *)
(* gameAreaDimensions is the rectangle the bounds test reads: all zeros    *)
(* from mount until the measure callback has run, and written again by the *)
(* measure callback after every change of the window dimensions.           *)
(*                                                                         *)
(* Time is counted in the program's timer units.  Each armed timer holds   *)
(* the time left until it is due, 0 once it is due.  Any amount of time    *)
(* may pass between two events (AdvanceTime(d)), so a command comes at any *)
(* instant and a closure armed by a second Pick Finger has any phase       *)
(* against the timers of the first.  setTimeout and setInterval run a      *)
(* callback no sooner than its delay: the clock may move on while a due    *)
(* callback waits for the thread, an interval is re-armed from the time    *)
(* its callback ran, and the callbacks that are due run in any order.      *)
(* slack bounds how many times the clock moves on past a waiting callback. *)
(* The cycling interval and the outcome timeout both fall due at           *)
(* Len * 200 * 3; which of the two runs first is the scheduler's choice.   *)
(***************************************************************************)
EXTENDS Integers, Sequences, FiniteSets, TLC

VARIABLES fingers, fingerColors, selecting, winnerIndex, sessions, tapSound,
          gameAreaDimensions, slack

vars == <<fingers, fingerColors, selecting, winnerIndex, sessions, tapSound,
          gameAreaDimensions, slack>>

---------------------------------------------------------------------------
(* Bounds of the model *)

\* touch identifiers handed out by the platform are 0 .. MaxIds - 1
MaxIds == 2
\* largest number of sessions with pending timers at one time
MaxSessions == 2
\* the grain of the clock: events come at multiples of it, so that a second
\* closure is armed any number of grains after the first
TimeStep == 100
\* how many times the clock may move on while a timer callback is waiting
MaxLate == 1

---------------------------------------------------------------------------
(* Program constants *)

selectionSpeed == 200
numberOfCycles == 3
blinkSpeed == 300
blinkLimit == 6
cooldownTime == 2000
buttonStrip == 70
startStrip == 80

IdleColor == "#00a2ff"
HighlightColor == "#ff9500"
WinnerColor == "#ff2d55"
WinnerColorAlt == "#ff0055"

\* winnerIndex === null
Null == -1
\* a timer that is not armed (never started, fired once, or cleared)
Off == -1
\* the rectangle the measure callback stores for a layout of the play surface
Layout(pageX, pageY, width, height) ==
    [pageX |-> pageX, pageY |-> pageY, width |-> width, height |-> height,
     bottom |-> pageY + height]

\* useRef({ pageX: 0, pageY: 0, width: 0, height: 0, bottom: 0 })
Unmeasured == [pageX |-> 0, pageY |-> 0, width |-> 0, height |-> 0, bottom |-> 0]

\* the layouts the window takes: upright, and after a change of dimensions
Portrait == Layout(10, 20, 100, 200)
Resized == Layout(10, 20, 100, 100)
Layouts == {Portrait, Resized}

---------------------------------------------------------------------------
(* Pure helpers *)

Digit(d) ==
    CASE d = 0 -> "0" [] d = 1 -> "1" [] d = 2 -> "2" [] d = 3 -> "3"
      [] d = 4 -> "4" [] d = 5 -> "5" [] d = 6 -> "6" [] d = 7 -> "7"
      [] d = 8 -> "8" [] d = 9 -> "9"

\* `${touch.identifier}`
RECURSIVE FingerId(_)
FingerId(n) == IF n < 10 THEN Digit(n) ELSE FingerId(n \div 10) \o Digit(n % 10)

isTouchInGameArea(pageX, pageY) ==
    LET areaX == gameAreaDimensions.pageX
        areaY == gameAreaDimensions.pageY
        width == gameAreaDimensions.width
        bottom == gameAreaDimensions.bottom
        buttonAreaTop == bottom - buttonStrip
    IN  /\ pageX >= areaX
        /\ pageX <= areaX + width
        /\ pageY >= areaY
        /\ pageY <= bottom
        /\ pageY < buttonAreaTop

onStartShouldSetPanResponder(touches) ==
    LET touch == touches[1]
    IN  /\ touch.pageY >= gameAreaDimensions.pageY
        /\ touch.pageY <= gameAreaDimensions.bottom - startStrip

onMoveShouldSetPanResponder(touches) ==
    LET touch == touches[1]
    IN  isTouchInGameArea(touch.pageX, touch.pageY)

Range(s) == {s[i] : i \in 1..Len(s)}

\* { ...prev, ...updates } on objects keyed by finger id
Merge(prev, updates) ==
    [k \in DOMAIN prev \cup DOMAIN updates |->
        IF k \in DOMAIN updates THEN updates[k] ELSE prev[k]]

EmptyMap == [k \in {} |-> IdleColor]

---------------------------------------------------------------------------
(* Inputs *)

Identifiers == 0..(MaxIds - 1)

\* coordinates on and around every edge the bounds test looks at
Points ==
    LET d == Portrait
    IN  { <<d.pageX, d.pageY>>,                              \* corner, inside
          <<d.pageX + d.width, d.bottom - buttonStrip - 1>>, \* inside, below the start line
          <<d.pageX, d.bottom - buttonStrip>>,               \* first row of the control strip
          <<d.pageX - 1, d.pageY>>,                          \* left of the surface
          <<d.pageX + d.width + 1, d.pageY>>,                \* right of the surface
          <<d.pageX, d.pageY - 1>> }                         \* above the surface

Touches == [identifier : Identifiers, pageX : {p[1] : p \in Points}, pageY : {p[2] : p \in Points}]

TouchSet == {t \in Touches : <<t.pageX, t.pageY>> \in Points}

DistinctIds(ts) ==
    \A i, j \in 1..Len(ts) : i # j => ts[i].identifier # ts[j].identifier

\* nativeEvent.touches: a non-empty list of touches with distinct identifiers,
\* anywhere on or around the play surface
TouchLists ==
    {ts \in UNION {[1..n -> TouchSet] : n \in 1..MaxIds} : DistinctIds(ts)}

\* every identifier put down at once on the corner of the play surface
PlainLists ==
    {[i \in 1..MaxIds |-> [identifier |-> i - 1,
                           pageX |-> Portrait.pageX,
                           pageY |-> Portrait.pageY]]}

---------------------------------------------------------------------------
(* State *)

Slots == DOMAIN sessions

\* The closure of one selectRandomFinger call and its timers.  A timer field
\* holds the time left until the timer is due, or Off.  visits, age and
\* outcomeAt record what the session did; no handler reads them.
NoSession ==
    [free |-> TRUE, activeFingers |-> <<>>, currentIndex |-> 0,
     interval |-> Off, timeout |-> Off, randomIndex |-> Null,
     blinkCount |-> 0, blinkInterval |-> Off, cooldown |-> Off,
     visits |-> <<>>, age |-> 0, outcomeAt |-> Null]

Live(s) == ~sessions[s].free

Timers(r) == {r.interval, r.timeout, r.blinkInterval, r.cooldown}

HasPendingTimer(r) == \E t \in Timers(r) : t # Off

\* a closure none of whose timers is armed can never run again
Retire(r) == IF HasPendingTimer(r) THEN r ELSE NoSession

Init ==
    /\ fingers = <<>>
    /\ fingerColors = EmptyMap
    /\ selecting = FALSE
    /\ winnerIndex = Null
    /\ sessions = [s \in 1..MaxSessions |-> NoSession]
    /\ tapSound = "unloaded"
    /\ gameAreaDimensions = Unmeasured
    /\ slack = MaxLate

---------------------------------------------------------------------------
(* Gesture handlers *)

\* Sound.createAsync has resolved: tapSoundRef.current holds the tap cue.
\* When loading fails the error is logged and this step never happens.
loadSounds ==
    /\ tapSound = "unloaded"
    /\ tapSound' = "stopped"
    /\ UNCHANGED <<fingers, fingerColors, selecting, winnerIndex, sessions,
                   gameAreaDimensions, slack>>

\* if (tapSoundRef.current) await tapSoundRef.current.replayAsync(): the tap
\* cue starts from its beginning, or replayAsync fails and the error is logged
playTapSound ==
    IF tapSound = "unloaded"
    THEN UNCHANGED tapSound
    ELSE tapSound' \in {"playing", tapSound}

\* the tap cue has played to its end
TapSoundEnds ==
    /\ tapSound = "playing"
    /\ tapSound' = "stopped"
    /\ UNCHANGED <<fingers, fingerColors, selecting, winnerIndex, sessions,
                   gameAreaDimensions, slack>>

\* the callback of gameAreaRef.current.measure, run after mount and after
\* every 'change' event of Dimensions
measureGameArea(rect) ==
    /\ gameAreaDimensions' = rect
    /\ UNCHANGED <<fingers, fingerColors, selecting, winnerIndex, sessions,
                   tapSound, slack>>

\* validTouches.map(touch => ...): one contact per valid touch
currentTouchesOf(validTouches) ==
    [i \in 1..Len(validTouches) |->
        [id |-> FingerId(validTouches[i].identifier),
         x |-> validTouches[i].pageX,
         y |-> validTouches[i].pageY,
         active |-> TRUE]]

\* the setFingers updater of onPanResponderGrant keeping the earlier contacts
\* that carry an id of the new touches
RegisteredFingers_KeepsOld(prev, currentTouches) ==
    LET Remains(f) == f.active
        remainingFingers == SelectSeq(prev, Remains)
    IN  remainingFingers \o currentTouches

\* the setFingers updater of onPanResponderGrant: earlier contacts with the id
\* of a new touch, and inactive ones, are dropped and the new ones appended
RegisteredFingers(prev, currentTouches) ==
    LET touchIds == {currentTouches[i].id : i \in 1..Len(currentTouches)}
        Remains(f) == f.id \notin touchIds /\ f.active
        remainingFingers == SelectSeq(prev, Remains)
    IN  remainingFingers \o currentTouches

\* the setFingerColors updaters of onPanResponderGrant, one per valid touch
IdleColors(prev, currentTouches) ==
    Merge(prev, [k \in {currentTouches[i].id : i \in 1..Len(currentTouches)} |-> IdleColor])

\* the body of onPanResponderGrant from the tap cue on: one contact per valid
\* touch, its color set to idle, earlier contacts with the same id dropped
Register(validTouches) ==
    LET currentTouches == currentTouchesOf(validTouches)
    IN  /\ IF Len(validTouches) > 0 THEN playTapSound ELSE UNCHANGED tapSound
        /\ fingerColors' = IdleColors(fingerColors, currentTouches)
        /\ fingers' = RegisteredFingers(fingers, currentTouches)
        /\ UNCHANGED <<selecting, winnerIndex, sessions,
                       gameAreaDimensions, slack>>

\* onPanResponderGrant registering the first valid touch only
onPanResponderGrant_FirstTouchOnly(touches) ==
    /\ onStartShouldSetPanResponder(touches) \/ onMoveShouldSetPanResponder(touches)
    /\ IF selecting
       THEN UNCHANGED <<fingers, fingerColors, selecting, winnerIndex, sessions, tapSound,
                        gameAreaDimensions, slack>>
       ELSE LET InArea(t) == isTouchInGameArea(t.pageX, t.pageY)
                validTouches == SelectSeq(touches, InArea)
            IN  Register(IF validTouches = <<>> THEN <<>> ELSE <<Head(validTouches)>>)

\* onPanResponderGrant without the validTouches filter
onPanResponderGrant_NoFilter(touches) ==
    /\ onStartShouldSetPanResponder(touches) \/ onMoveShouldSetPanResponder(touches)
    /\ IF selecting
       THEN UNCHANGED <<fingers, fingerColors, selecting, winnerIndex, sessions, tapSound,
                        gameAreaDimensions, slack>>
       ELSE Register(touches)

\* onPanResponderGrant playing the tap cue before it looks at `selecting`
onPanResponderGrant_CueBeforeGuard(touches) ==
    /\ onStartShouldSetPanResponder(touches) \/ onMoveShouldSetPanResponder(touches)
    /\ LET InArea(t) == isTouchInGameArea(t.pageX, t.pageY)
           validTouches == SelectSeq(touches, InArea)
       IN  IF selecting
           THEN /\ IF Len(validTouches) > 0 THEN playTapSound ELSE UNCHANGED tapSound
                /\ UNCHANGED <<fingers, fingerColors, selecting, winnerIndex, sessions,
                               gameAreaDimensions, slack>>
           ELSE Register(validTouches)

\* Runs when the touch area becomes the responder, which it does when one of
\* the two should-set callbacks answers true for the event.
onPanResponderGrant(touches) ==
    /\ onStartShouldSetPanResponder(touches) \/ onMoveShouldSetPanResponder(touches)
    /\ IF selecting
       THEN UNCHANGED <<fingers, fingerColors, selecting, winnerIndex, sessions, tapSound,
                        gameAreaDimensions, slack>>
       ELSE LET InArea(t) == isTouchInGameArea(t.pageX, t.pageY)
                validTouches == SelectSeq(touches, InArea)
            IN  Register(validTouches)

\* the setFingers updater of onPanResponderMove following a matching touch
\* wherever it is
MovedFingers_NoBoundsTest(prev, touches) ==
    LET Moved(finger) ==
            LET matching == {i \in 1..Len(touches) :
                                FingerId(touches[i].identifier) = finger.id}
            IN  IF matching # {}
                THEN LET matchingTouch == touches[CHOOSE i \in matching :
                                             \A j \in matching : i <= j]
                     IN  [finger EXCEPT !.x = matchingTouch.pageX,
                                        !.y = matchingTouch.pageY]
                ELSE finger
    IN  [i \in 1..Len(prev) |-> Moved(prev[i])]

\* the setFingers updater of onPanResponderMove: prev.map(finger => ...)
MovedFingers(prev, touches) ==
    LET Moved(finger) ==
            LET matching == {i \in 1..Len(touches) :
                                FingerId(touches[i].identifier) = finger.id}
            IN  IF matching # {}
                THEN LET matchingTouch == touches[CHOOSE i \in matching :
                                             \A j \in matching : i <= j]
                     IN  IF isTouchInGameArea(matchingTouch.pageX, matchingTouch.pageY)
                         THEN [finger EXCEPT !.x = matchingTouch.pageX,
                                             !.y = matchingTouch.pageY]
                         ELSE finger
                ELSE finger
    IN  [i \in 1..Len(prev) |-> Moved(prev[i])]

onPanResponderMove(touches) ==
    /\ IF ~selecting
       THEN fingers' = MovedFingers(fingers, touches)
       ELSE UNCHANGED fingers
    /\ UNCHANGED <<fingerColors, selecting, winnerIndex, sessions, tapSound,
                   gameAreaDimensions, slack>>

\* onPanResponderRelease marking every contact inactive
onPanResponderRelease_Deactivates ==
    /\ fingers' = [i \in 1..Len(fingers) |-> [fingers[i] EXCEPT !.active = FALSE]]
    /\ UNCHANGED <<fingerColors, selecting, winnerIndex, sessions, tapSound,
                   gameAreaDimensions, slack>>

onPanResponderRelease ==
    /\ UNCHANGED <<fingers, fingerColors, selecting, winnerIndex, sessions, tapSound,
                   gameAreaDimensions, slack>>

onPanResponderTerminate ==
    /\ UNCHANGED <<fingers, fingerColors, selecting, winnerIndex, sessions, tapSound,
                   gameAreaDimensions, slack>>

---------------------------------------------------------------------------
(* Selection sequencer *)

\* the updatedColors object built by the forEach: a later entry with the same
\* id overwrites an earlier one
ColorsByIndex(ids, index, hit, miss) ==
    [k \in Range(ids) |->
        LET last == CHOOSE i \in 1..Len(ids) :
                        ids[i] = k /\ \A j \in 1..Len(ids) : ids[j] = k => j <= i
        IN  IF last - 1 = index THEN hit ELSE miss]

updateFingerColors(activeFingers, currentIndex) ==
    Merge(fingerColors, ColorsByIndex(activeFingers, currentIndex, HighlightColor, IdleColor))

ActiveIds(fs) ==
    LET Active(f) == f.active
        act == SelectSeq(fs, Active)
    IN  [i \in 1..Len(act) |-> act[i].id]

selectionTime(activeFingers) == Len(activeFingers) * selectionSpeed * numberOfCycles

\* the closure and the two timers a call that passes the guard creates
NewSession(activeFingers) ==
    [free |-> FALSE,
     activeFingers |-> activeFingers,
     currentIndex |-> 0,
     interval |-> selectionSpeed,
     timeout |-> selectionTime(activeFingers),
     randomIndex |-> Null,
     blinkCount |-> 0,
     blinkInterval |-> Off,
     cooldown |-> Off,
     visits |-> [i \in 1..Len(activeFingers) |-> 0],
     age |-> 0,
     outcomeAt |-> Null]

FreeSlot == CHOOSE n \in Slots : ~Live(n) /\ \A m \in Slots : ~Live(m) => n <= m

\* selectRandomFinger without the `selecting` half of its guard
selectRandomFinger_NoSelectingGuard ==
    LET activeFingers == ActiveIds(fingers)
    IN  IF Len(activeFingers) = 0
        THEN UNCHANGED <<fingers, fingerColors, selecting, winnerIndex, sessions, tapSound,
                         gameAreaDimensions, slack>>
        ELSE /\ \E s \in Slots : ~Live(s)
             /\ sessions' = [sessions EXCEPT ![FreeSlot] = NewSession(activeFingers)]
             /\ selecting' = TRUE
             /\ winnerIndex' = Null
             /\ UNCHANGED <<fingers, fingerColors, tapSound,
                            gameAreaDimensions, slack>>

\* Pick Finger
selectRandomFinger ==
    LET activeFingers == ActiveIds(fingers)
    IN  IF Len(activeFingers) = 0 \/ selecting
        THEN UNCHANGED <<fingers, fingerColors, selecting, winnerIndex, sessions, tapSound,
                         gameAreaDimensions, slack>>
        ELSE /\ \E s \in Slots : ~Live(s)
             /\ sessions' = [sessions EXCEPT ![FreeSlot] = NewSession(activeFingers)]
             /\ selecting' = TRUE
             /\ winnerIndex' = Null
             /\ UNCHANGED <<fingers, fingerColors, tapSound,
                            gameAreaDimensions, slack>>

\* the cycling callback reading the registry of the current render instead of
\* the list it captured
CycleTick_ReadsRegistry(s) ==
    /\ Live(s)
    /\ sessions[s].interval = 0
    /\ LET r == sessions[s]
           current == IF fingers = <<>> THEN r.activeFingers ELSE ActiveIds(fingers)
           currentIndex == (r.currentIndex + 1) % Len(current)
       IN  /\ fingerColors' = updateFingerColors(current, currentIndex)
           /\ sessions' = [sessions EXCEPT ![s] =
                  [r EXCEPT !.currentIndex = currentIndex,
                            !.interval = selectionSpeed]]
    /\ UNCHANGED <<fingers, selecting, winnerIndex, tapSound,
                   gameAreaDimensions, slack>>

\* the setInterval callback of the cycling phase
CycleTick(s) ==
    /\ Live(s)
    /\ sessions[s].interval = 0
    /\ LET r == sessions[s]
           currentIndex == (r.currentIndex + 1) % Len(r.activeFingers)
       IN  /\ fingerColors' = updateFingerColors(r.activeFingers, currentIndex)
           /\ sessions' = [sessions EXCEPT ![s] =
                  [r EXCEPT !.currentIndex = currentIndex,
                            !.interval = selectionSpeed,
                            !.visits[currentIndex + 1] = @ + 1]]
    /\ UNCHANGED <<fingers, selecting, winnerIndex, tapSound,
                   gameAreaDimensions, slack>>

\* the outcome callback without clearInterval(interval)
Outcome_KeepsCycling(s) ==
    /\ Live(s)
    /\ sessions[s].timeout = 0
    /\ LET r == sessions[s]
       IN  \E randomIndex \in 0..(Len(r.activeFingers) - 1) :
              /\ winnerIndex' = randomIndex
              /\ fingerColors' =
                     Merge(fingerColors,
                           ColorsByIndex(r.activeFingers, randomIndex, WinnerColor, IdleColor))
              /\ sessions' = [sessions EXCEPT ![s] =
                     [r EXCEPT !.timeout = Off,
                               !.randomIndex = randomIndex,
                               !.blinkCount = 0,
                               !.blinkInterval = blinkSpeed,
                               !.cooldown = cooldownTime,
                               !.outcomeAt = r.age]]
    /\ UNCHANGED <<fingers, selecting, tapSound, gameAreaDimensions, slack>>

\* the outcome callback recoloring the winner only
Outcome_WinnerOnly(s) ==
    /\ Live(s)
    /\ sessions[s].timeout = 0
    /\ LET r == sessions[s]
       IN  \E randomIndex \in 0..(Len(r.activeFingers) - 1) :
              /\ winnerIndex' = randomIndex
              /\ fingerColors' =
                     Merge(fingerColors,
                           [k \in {r.activeFingers[randomIndex + 1]} |-> WinnerColor])
              /\ sessions' = [sessions EXCEPT ![s] =
                     [r EXCEPT !.interval = Off,
                               !.timeout = Off,
                               !.randomIndex = randomIndex,
                               !.blinkCount = 0,
                               !.blinkInterval = blinkSpeed,
                               !.cooldown = cooldownTime,
                               !.outcomeAt = r.age]]
    /\ UNCHANGED <<fingers, selecting, tapSound, gameAreaDimensions, slack>>

\* the setTimeout(selectionTime) callback
Outcome(s) ==
    /\ Live(s)
    /\ sessions[s].timeout = 0
    /\ LET r == sessions[s]
       IN  \E randomIndex \in 0..(Len(r.activeFingers) - 1) :
              /\ winnerIndex' = randomIndex
              /\ fingerColors' =
                     Merge(fingerColors,
                           ColorsByIndex(r.activeFingers, randomIndex, WinnerColor, IdleColor))
              /\ sessions' = [sessions EXCEPT ![s] =
                     [r EXCEPT !.interval = Off,
                               !.timeout = Off,
                               !.randomIndex = randomIndex,
                               !.blinkCount = 0,
                               !.blinkInterval = blinkSpeed,
                               !.cooldown = cooldownTime,
                               !.outcomeAt = r.age]]
    /\ UNCHANGED <<fingers, selecting, tapSound, gameAreaDimensions, slack>>

\* the setInterval(300) callback of the blink phase
BlinkTick(s) ==
    /\ Live(s)
    /\ sessions[s].blinkInterval = 0
    /\ LET r == sessions[s]
           blinkCount == r.blinkCount + 1
           winner == r.activeFingers[r.randomIndex + 1]
       IN  /\ fingerColors' =
                  Merge(fingerColors,
                        [k \in {winner} |->
                            IF blinkCount % 2 = 0 THEN WinnerColor ELSE WinnerColorAlt])
           /\ sessions' = [sessions EXCEPT ![s] =
                  Retire([r EXCEPT !.blinkCount = blinkCount,
                                   !.blinkInterval =
                                       IF blinkCount >= blinkLimit THEN Off ELSE blinkSpeed])]
    /\ UNCHANGED <<fingers, selecting, winnerIndex, tapSound,
                   gameAreaDimensions, slack>>

\* the cooldown callback leaving the selecting flag set
Cooldown_KeepsSelecting(s) ==
    /\ Live(s)
    /\ sessions[s].cooldown = 0
    /\ sessions' = [sessions EXCEPT ![s] = Retire([sessions[s] EXCEPT !.cooldown = Off])]
    /\ UNCHANGED <<fingers, fingerColors, winnerIndex, selecting, tapSound,
                   gameAreaDimensions, slack>>

\* the cooldown callback clearing the winner index along with the flag
Cooldown_ClearsWinner(s) ==
    /\ Live(s)
    /\ sessions[s].cooldown = 0
    /\ selecting' = FALSE
    /\ winnerIndex' = Null
    /\ sessions' = [sessions EXCEPT ![s] = Retire([sessions[s] EXCEPT !.cooldown = Off])]
    /\ UNCHANGED <<fingers, fingerColors, tapSound, gameAreaDimensions, slack>>

\* the setTimeout(2000) callback
Cooldown(s) ==
    /\ Live(s)
    /\ sessions[s].cooldown = 0
    /\ selecting' = FALSE
    /\ sessions' = [sessions EXCEPT ![s] = Retire([sessions[s] EXCEPT !.cooldown = Off])]
    /\ UNCHANGED <<fingers, fingerColors, winnerIndex, tapSound,
                   gameAreaDimensions, slack>>

\* handleRestart without setFingerColors({})
handleRestart_KeepsColors ==
    /\ fingers' = <<>>
    /\ selecting' = FALSE
    /\ winnerIndex' = Null
    /\ UNCHANGED <<fingerColors, sessions, tapSound, gameAreaDimensions, slack>>

\* Reset
handleRestart ==
    /\ fingers' = <<>>
    /\ selecting' = FALSE
    /\ winnerIndex' = Null
    /\ fingerColors' = EmptyMap
    /\ UNCHANGED <<sessions, tapSound, gameAreaDimensions, slack>>

---------------------------------------------------------------------------
(* Time *)

\* d units later: a timer that is due stays due until its callback runs
Elapse(r, d) ==
    LET Left(t) == IF t = Off THEN Off ELSE IF t > d THEN t - d ELSE 0
    IN  IF r.free THEN r
        ELSE [r EXCEPT !.interval = Left(@),
                       !.timeout = Left(@),
                       !.blinkInterval = Left(@),
                       !.cooldown = Left(@),
                       !.age = @ + d]

Armed(r) == {t \in Timers(r) : t # Off}

Min(S) == CHOOSE x \in S : \A y \in S : x <= y

\* the armed timers that are not due yet
Waiting == {t \in UNION {Armed(sessions[s]) : s \in Slots} : t > 0}

\* some timer callback is due and has not run yet
Due == \E s \in Slots : 0 \in Armed(sessions[s])

\* the time until the next timer that is not due yet becomes due
NextDue == Min(Waiting)

\* a step of d units passes the instant a callback is due at, the callback
\* not having run: the callback is kept waiting
Late(d) == \E s \in Slots : \E t \in Armed(sessions[s]) : t < d

\* d units pass between two events.  setInterval and setTimeout run a
\* callback no sooner than its delay; the clock moves on past a waiting
\* callback while the thread is busy.
AdvanceTime(d) ==
    /\ d > 0
    /\ \E s \in Slots : Live(s)
    /\ sessions' = [s \in Slots |-> Elapse(sessions[s], d)]
    /\ IF Late(d) THEN slack > 0 /\ slack' = slack - 1 ELSE UNCHANGED slack
    /\ UNCHANGED <<fingers, fingerColors, selecting, winnerIndex,
                   tapSound, gameAreaDimensions>>

\* the times that pass in one step: one grain of the clock, or the time to
\* the next timer that is not due yet
Delays == {TimeStep} \cup (IF Waiting # {} THEN {NextDue} ELSE {})

\* the clock runs from one timer to the next
DelaysToTimer == IF Waiting # {} THEN {NextDue} ELSE {}

---------------------------------------------------------------------------

Timer(s) ==
    \/ CycleTick(s)
    \/ Outcome(s)
    \/ BlinkTick(s)
    \/ Cooldown(s)

\* The sequencer under every interleaving of commands and timers, sessions
\* left running by Reset included, commands at every grain of the clock and
\* callbacks kept waiting up to MaxLate times; touches are plain, the window
\* keeps its dimensions, and the sounds have not loaded.
Next ==
    \/ \E touches \in PlainLists : onPanResponderGrant(touches)
    \/ \E touches \in PlainLists : onPanResponderMove(touches)
    \/ onPanResponderRelease
    \/ onPanResponderTerminate
    \/ selectRandomFinger
    \/ handleRestart
    \/ \E s \in Slots : CycleTick(s)
    \/ \E s \in Slots : Outcome(s)
    \/ \E s \in Slots : BlinkTick(s)
    \/ \E s \in Slots : Cooldown(s)
    \/ \E d \in Delays : AdvanceTime(d)
    \/ measureGameArea(Portrait)

Spec == Init /\ [][Next]_vars

\* One session at a time; time passes and the event loop runs every timer
\* callback that is due, if late.
LiveInit ==
    /\ fingers = <<>>
    /\ fingerColors = EmptyMap
    /\ selecting = FALSE
    /\ winnerIndex = Null
    /\ sessions = [s \in {1} |-> NoSession]
    /\ tapSound = "unloaded"
    /\ gameAreaDimensions = Unmeasured
    /\ slack = MaxLate

LiveSpec ==
    /\ LiveInit /\ [][Next]_vars
    /\ WF_vars(\E d \in Delays : AdvanceTime(d))
    /\ WF_vars(Timer(1))

\* The gesture mapper under every touch list, before and after the sounds have
\* loaded and the surface is measured, under a change of the window
\* dimensions, with one session at a time whose callbacks run on time, the
\* clock running from timer to timer.
GestureInit ==
    /\ fingers = <<>>
    /\ fingerColors = EmptyMap
    /\ selecting = FALSE
    /\ winnerIndex = Null
    /\ sessions = [s \in {1} |-> NoSession]
    /\ tapSound = "unloaded"
    /\ gameAreaDimensions = Unmeasured
    /\ slack = 0

GestureNext ==
    \/ \E touches \in TouchLists : onPanResponderGrant(touches)
    \/ \E touches \in TouchLists : onPanResponderMove(touches)
    \/ onPanResponderRelease
    \/ onPanResponderTerminate
    \/ selectRandomFinger
    \/ handleRestart
    \/ \E s \in Slots : CycleTick(s)
    \/ \E s \in Slots : Outcome(s)
    \/ \E s \in Slots : BlinkTick(s)
    \/ \E s \in Slots : Cooldown(s)
    \/ \E d \in DelaysToTimer : AdvanceTime(d)
    \/ loadSounds
    \/ TapSoundEnds
    \/ \E rect \in Layouts : measureGameArea(rect)

GestureSpec == GestureInit /\ [][GestureNext]_vars

---------------------------------------------------------------------------
(* Properties *)

SlotIds == 1..MaxSessions

Rejecting == Len(ActiveIds(fingers)) = 0 \/ selecting

Colored(k, c) == k \in DOMAIN fingerColors /\ fingerColors[k] = c

\* C1: sessions never overlap: in every reachable state at most one
\* selectRandomFinger closure has a pending timer (cycling interval, outcome
\* timeout, blink interval or cooldown timeout).
C1_SessionsNeverOverlap ==
    Cardinality({s \in Slots : Live(s) /\ HasPendingTimer(sessions[s])}) <= 1

\* C2: Pick Finger with no active contact, or while selecting is true, changes
\* nothing: no timer is created and the registry, the color map, the selecting
\* flag and the winner index stay as they were, so a second call during a
\* session adds no second session.
C2_RejectedPickChangesNothing ==
    [][(Rejecting /\ selectRandomFinger) =>
           /\ UNCHANGED <<fingers, fingerColors, selecting, winnerIndex>>
           /\ sessions' = sessions]_vars

\* a session in mid-cycle with the registry populated: Pick Finger pressed here
\* is the second call of the claim, and the state after it is this same state
C2_Witness ==
    /\ selecting
    /\ fingers # <<>>
    /\ \E s \in Slots :
          /\ Live(s)
          /\ sessions[s].age > 0
          /\ sessions[s].timeout > 0
          /\ \A t \in Slots : t # s => ~Live(t)

\* C3: Reset, in whatever state it is invoked, leaves the registry empty, the
\* color map empty, the winner index unset and the selecting flag false.
C3_ResetClears ==
    [][handleRestart =>
           /\ fingers' = <<>>
           /\ fingerColors' = EmptyMap
           /\ winnerIndex' = Null
           /\ selecting' = FALSE]_vars

\* everything is cleared while a session is still in its blink phase: only a
\* Reset in the middle of the reveal leads here
C3_Witness ==
    /\ fingers = <<>>
    /\ fingerColors = EmptyMap
    /\ winnerIndex = Null
    /\ ~selecting
    /\ \E s \in Slots :
          /\ Live(s)
          /\ sessions[s].blinkCount > 0
          /\ sessions[s].blinkInterval # Off

\* C4: once the cycling timer of a session is stopped, each of the K snapshot
\* indices, index 0 included, has been highlighted at least numberOfCycles times.
C4_EachIndexThreeTimes ==
    \A s \in Slots :
        (Live(s) /\ sessions[s].randomIndex # Null) =>
            \A i \in 1..Len(sessions[s].activeFingers) :
                sessions[s].visits[i] >= numberOfCycles

\* C5: the outcome step of a session with a snapshot of K contacts sets the
\* winner index to an integer in [0, K); right after it the snapshot contact at
\* that index has the winner color and every other snapshot contact the idle
\* color.
C5_OutcomeInRangeAndColored ==
    [][\A s \in SlotIds :
          (s \in Slots /\ Outcome(s)) =>
              LET snapshot == sessions[s].activeFingers
                  K == Len(snapshot)
              IN  /\ winnerIndex' \in 0..(K - 1)
                  /\ \A i \in 1..K :
                        /\ snapshot[i] \in DOMAIN fingerColors'
                        /\ fingerColors'[snapshot[i]] =
                               IF i - 1 = winnerIndex' THEN WinnerColor ELSE IdleColor]_vars

\* the outcome has just run (no blink tick yet) and drew the last index of a
\* snapshot of more than one contact
C5_Witness ==
    \E s \in Slots :
        /\ Live(s)
        /\ Len(sessions[s].activeFingers) > 1
        /\ sessions[s].randomIndex = Len(sessions[s].activeFingers) - 1
        /\ sessions[s].cooldown = cooldownTime
        /\ winnerIndex = sessions[s].randomIndex
        /\ Colored(sessions[s].activeFingers[sessions[s].randomIndex + 1], WinnerColor)
        /\ Colored(sessions[s].activeFingers[1], IdleColor)

\* no timer callback has been kept waiting so far
OnTime == slack = MaxLate

\* C6: every session started by Pick Finger ends when time passes and due
\* timers fire: its timers all run out, the blink timer among them, and a set
\* selecting flag is cleared again, so that Pick Finger is accepted again.
\* The outcome step stops the cycling timer and arms the cooldown with
\* cooldownTime; the cooldown callback, which clears the flag, runs no sooner
\* than cooldownTime units after the outcome, and at that instant when no
\* callback was kept waiting.
C6_EverySessionEnds ==
    /\ Live(1) ~> ~Live(1)
    /\ selecting ~> ~selecting
    /\ [][\A s \in Slots :
             /\ Outcome(s) =>
                   /\ sessions'[s].interval = Off
                   /\ sessions'[s].cooldown = cooldownTime
             /\ Cooldown(s) =>
                   /\ sessions[s].age >= sessions[s].outcomeAt + cooldownTime
                   /\ OnTime => sessions[s].age = sessions[s].outcomeAt + cooldownTime
                   /\ sessions[s].interval = Off
                   /\ ~selecting'
                   /\ sessions'[s].cooldown = Off]_vars

NoSessionLive == \A s \in Slots : ~Live(s)

\* a session has run to its end: the flag is clear, no timer is left, and the
\* winner it drew is still shown in the primary winner color
C6_Witness ==
    /\ ~selecting
    /\ NoSessionLive
    /\ winnerIndex # Null
    /\ \E k \in DOMAIN fingerColors : fingerColors[k] = WinnerColor

AllInside(touches) ==
    \A i \in 1..Len(touches) : isTouchInGameArea(touches[i].pageX, touches[i].pageY)

\* C7: from an empty registry with no session in progress, a touch-start with
\* N touches of distinct identifiers, all inside the bounds, leaves exactly N
\* contacts, one per identifier, each at the coordinate its touch started at.
C7_BatchRegistersAll ==
    [][(fingers = <<>> /\ ~selecting) =>
          \A touches \in TouchLists :
              (AllInside(touches) /\ onPanResponderGrant(touches)) =>
                  /\ Len(fingers') = Len(touches)
                  /\ \A i \in 1..Len(touches) :
                        /\ fingers'[i].id = FingerId(touches[i].identifier)
                        /\ fingers'[i].x = touches[i].pageX
                        /\ fingers'[i].y = touches[i].pageY]_vars

\* the registry right after such a batch of two: two contacts at two different
\* coordinates, both idle, no winner, nothing selected yet
C7_Witness ==
    /\ Len(fingers) = 2
    /\ fingers[1].id # fingers[2].id
    /\ <<fingers[1].x, fingers[1].y>> # <<fingers[2].x, fingers[2].y>>
    /\ \A i \in 1..2 : Colored(fingers[i].id, IdleColor)
    /\ ~selecting
    /\ winnerIndex = Null
    /\ NoSessionLive

RegistryInside ==
    \A i \in 1..Len(fingers) : isTouchInGameArea(fingers[i].x, fingers[i].y)

\* C8: while the measured rectangle stays the same, every contact a step puts
\* into the registry, or moves, is at a position that passes the bounds test
\* (a touch-start outside the rectangle or inside the control strip creates no
\* entry), and so a registry whose contacts all pass the test stays one.
C8_RegistryInsideBounds ==
    [][gameAreaDimensions' = gameAreaDimensions =>
          /\ \A i \in 1..Len(fingers') :
                 fingers'[i] \notin Range(fingers) =>
                     isTouchInGameArea(fingers'[i].x, fingers'[i].y)
          /\ RegistryInside => RegistryInside']_vars

\* a contact registered on the last row above the control strip
C8_Witness ==
    /\ gameAreaDimensions = Portrait
    /\ \E i \in 1..Len(fingers) :
           fingers[i].y = Portrait.bottom - buttonStrip - 1

\* C9 as stated: once set, the winner index changes only when Reset runs.
C9_WinnerKeptUntilReset ==
    [][(winnerIndex # Null /\ winnerIndex' # winnerIndex) => handleRestart]_vars

\* C9 amended: once set, the winner index changes only when Reset runs, when
\* Pick Finger starts a session, or when the outcome callback of a session
\* runs; touch handlers and the cycling, blink and cooldown callbacks leave it.
C9_WinnerChangedOnlyByResetPickOutcome ==
    [][(winnerIndex # Null /\ winnerIndex' # winnerIndex) =>
           \/ handleRestart
           \/ selectRandomFinger
           \/ \E s \in Slots : Outcome(s)]_vars

\* the session is over and its winner index, the second contact, is still set
C9_Witness ==
    /\ winnerIndex = 1
    /\ ~selecting
    /\ NoSessionLive
    /\ Len(fingers) > 1

Untouched(keep) ==
    \A k \in (DOMAIN fingerColors \cup DOMAIN fingerColors') \ keep :
        /\ k \in DOMAIN fingerColors
        /\ k \in DOMAIN fingerColors'
        /\ fingerColors'[k] = fingerColors[k]

\* C10: the list of contacts a session works on is the list of active contacts
\* at the Pick Finger call and stays that list; the cycling index runs over it,
\* the outcome timeout is set to Len * selectionSpeed * numberOfCycles units
\* and the outcome comes no sooner, the
\* winner is drawn from its indices, and only its contacts are recolored,
\* whatever has happened to the registry in between.
C10_SnapshotFixed ==
    [][\A s \in Slots :
          LET r == sessions[s]
              snapshot == r.activeFingers
              K == Len(snapshot)
          IN  /\ (r.free /\ ~sessions'[s].free) =>
                    /\ sessions'[s].activeFingers = ActiveIds(fingers)
                    /\ sessions'[s].timeout =
                           Len(ActiveIds(fingers)) * selectionSpeed * numberOfCycles
              /\ (~r.free /\ ~sessions'[s].free) =>
                    sessions'[s].activeFingers = snapshot
              /\ (~r.free /\ CycleTick(s)) =>
                    /\ sessions'[s].currentIndex \in 0..(K - 1)
                    /\ Untouched(Range(snapshot))
              /\ (~r.free /\ Outcome(s)) =>
                    /\ r.age >= K * selectionSpeed * numberOfCycles
                    /\ winnerIndex' \in 0..(K - 1)
                    /\ Untouched(Range(snapshot))
              /\ (~r.free /\ BlinkTick(s)) =>
                    Untouched(Range(snapshot))]_vars

\* a session whose outcome ran on its own list after Reset and a new
\* touch-start had made the registry a different one
C10_Witness ==
    \E s \in Slots :
        /\ Live(s)
        /\ sessions[s].randomIndex # Null
        /\ winnerIndex = sessions[s].randomIndex
        /\ fingers # <<>>
        /\ ActiveIds(fingers) # sessions[s].activeFingers

\* C11: within a session the timers are strictly ordered: a cycling tick of a
\* session runs only while its outcome step has not run, so none recolors a
\* contact after it; a blink tick of a session runs only after its outcome
\* step has run (cycling timer stopped, outcome timeout spent), and no sooner
\* than blinkSpeed units after the outcome coloring was written.
C11_TimersStrictlyOrdered ==
    [][\A s \in Slots :
          /\ CycleTick(s) =>
                /\ sessions[s].randomIndex = Null
                /\ sessions[s].outcomeAt = Null
                /\ sessions[s].blinkInterval = Off
          /\ BlinkTick(s) =>
                /\ sessions[s].randomIndex # Null
                /\ sessions[s].interval = Off
                /\ sessions[s].timeout = Off
                /\ sessions[s].age >= sessions[s].outcomeAt + blinkSpeed]_vars

\* the first blink tick of a session has run, blinkSpeed units after its
\* outcome, and the cycling timer is stopped: the winner shows the alternate
\* winner color and the other snapshot contact is still idle
C11_Witness ==
    \E s \in Slots :
        /\ Live(s)
        /\ sessions[s].blinkCount = 1
        /\ sessions[s].interval = Off
        /\ sessions[s].age = sessions[s].outcomeAt + blinkSpeed
        /\ sessions[s].randomIndex = 0
        /\ Colored(sessions[s].activeFingers[1], WinnerColorAlt)
        /\ Colored(sessions[s].activeFingers[2], IdleColor)

\* C12: after the outcome of a session its blink timer fires exactly
\* blinkLimit times, the n-th tick n * blinkSpeed units after the outcome; the
\* ticks set the winner's color to the alternate winner color on odd counts
\* and to the primary winner color on even counts, the last tick stops the
\* timer and leaves the primary winner color, and the timer has stopped,
\* all blinkLimit ticks done, when the cooldown callback clears the flag.
C12_BlinkSixTimesThenStops ==
    [][\A s \in Slots :
          LET r == sessions[s]
              n == r.blinkCount + 1
              winner == r.activeFingers[r.randomIndex + 1]
          IN  /\ BlinkTick(s) =>
                    /\ n <= blinkLimit
                    /\ r.age >= r.outcomeAt + n * blinkSpeed
                    /\ OnTime => r.age = r.outcomeAt + n * blinkSpeed
                    /\ winner \in DOMAIN fingerColors'
                    /\ fingerColors'[winner] =
                           IF n % 2 = 1 THEN WinnerColorAlt ELSE WinnerColor
                    /\ Untouched({winner})
                    /\ sessions'[s].free \/ sessions'[s].blinkCount = n
                    /\ (sessions'[s].blinkInterval = Off) <=> (n = blinkLimit)
                    /\ n = blinkLimit => fingerColors'[winner] = WinnerColor
              /\ Cooldown(s) =>
                    /\ r.blinkCount = blinkLimit
                    /\ r.blinkInterval = Off]_vars

\* C13: the list a touch-move hands to the registry has the same contacts in
\* the same order (same ids, all still active): a contact whose id matches a
\* touch inside the bounds gets that touch's coordinate, and every other
\* contact, one whose matching touch is outside the bounds included, keeps its
\* position.  While selecting is true a touch-move changes nothing at all: no
\* step that changes a variable is a touch-move.
C13_MoveOnlyRepositions ==
    /\ [](\A touches \in TouchLists :
             LET moved == MovedFingers(fingers, touches)
             IN  /\ Len(moved) = Len(fingers)
                 /\ \A i \in 1..Len(fingers) :
                       LET inBounds ==
                               {j \in 1..Len(touches) :
                                   /\ FingerId(touches[j].identifier) = fingers[i].id
                                   /\ isTouchInGameArea(touches[j].pageX, touches[j].pageY)}
                       IN  /\ moved[i].id = fingers[i].id
                           /\ moved[i].active = fingers[i].active
                           /\ inBounds = {} => moved[i] = fingers[i]
                           /\ \A j \in inBounds :
                                 /\ moved[i].x = touches[j].pageX
                                 /\ moved[i].y = touches[j].pageY)
    /\ [][(selecting /\ vars' # vars) =>
             \A touches \in TouchLists : ~onPanResponderMove(touches)]_vars

\* after a finished session the winner's contact has been dragged to the far
\* corner of the play surface while the other contact stayed where it was put
\* down: colors, winner index and registry order are those the session left
C13_Witness ==
    /\ ~selecting
    /\ NoSessionLive
    /\ winnerIndex = 0
    /\ Len(fingers) = 2
    /\ Colored(fingers[1].id, WinnerColor)
    /\ Colored(fingers[2].id, IdleColor)
    /\ fingers[1].x = Portrait.pageX + Portrait.width
    /\ fingers[1].y = Portrait.bottom - buttonStrip - 1
    /\ fingers[2].x = Portrait.pageX
    /\ fingers[2].y = Portrait.pageY

RegisteredIds(fs) == {fs[i].id : i \in 1..Len(fs)}

\* C14: every contact in the registry is active, and a registered id stays
\* registered until Reset: touch end and touch cancel change no variable, and
\* a step after which some registered id is missing is a Reset step, never a
\* touch-start, touch-move, Pick Finger or timer callback.
C14_ContactsStayUntilReset ==
    /\ [](\A i \in 1..Len(fingers) : fingers[i].active)
    /\ [][/\ (onPanResponderRelease \/ onPanResponderTerminate) => UNCHANGED vars
          /\ ~(RegisteredIds(fingers) \subseteq RegisteredIds(fingers')) => handleRestart]_vars

\* both contacts put down before Pick Finger are still registered and active
\* in the middle of the blink phase, long after any touch has ended
C14_Witness ==
    /\ selecting
    /\ RegisteredIds(fingers) = {FingerId(n) : n \in Identifiers}
    /\ \A i \in 1..Len(fingers) : fingers[i].active
    /\ \E s \in Slots :
          /\ Live(s)
          /\ sessions[s].blinkCount = 3
          /\ sessions[s].activeFingers = ActiveIds(fingers)

\* C15: the registry holds at most one contact per id.  When a touch-start
\* has a touch inside the bounds whose id is already registered, the list it
\* hands to the registry replaces: it is longer than the registry by the
\* number of in-bounds ids that are new and by no more, the id of every
\* in-bounds touch has exactly one contact in it, at the coordinate the touch
\* started at, and the color map it writes has the idle color for that id.
C15_OneContactPerId ==
    /\ \A i, j \in 1..Len(fingers) : fingers[i].id = fingers[j].id => i = j
    /\ \A touches \in TouchLists :
          LET InArea(t) == isTouchInGameArea(t.pageX, t.pageY)
              validTouches == SelectSeq(touches, InArea)
              ids == {FingerId(validTouches[i].identifier) : i \in 1..Len(validTouches)}
              registered == RegisteredFingers(fingers, currentTouchesOf(validTouches))
              colors == IdleColors(fingerColors, currentTouchesOf(validTouches))
          IN  ids \cap RegisteredIds(fingers) # {} =>
                  /\ Len(registered) = Len(fingers) + Cardinality(ids \ RegisteredIds(fingers))
                  /\ \A i \in 1..Len(validTouches) :
                        LET id == FingerId(validTouches[i].identifier)
                            at == {j \in 1..Len(registered) : registered[j].id = id}
                        IN  /\ Cardinality(at) = 1
                            /\ \A j \in at :
                                  /\ registered[j].x = validTouches[i].pageX
                                  /\ registered[j].y = validTouches[i].pageY
                                  /\ registered[j].active
                            /\ id \in DOMAIN colors
                            /\ colors[id] = IdleColor

\* the winner of a finished session was put down again at another place: its
\* contact is now the last of the registry, at the new coordinate, idle again,
\* and the registry still has one contact per id
C15_Witness ==
    /\ ~selecting
    /\ NoSessionLive
    /\ winnerIndex = 0
    /\ Len(fingers) = 2
    /\ fingers[1].id = "1"
    /\ fingers[2].id = "0"
    /\ fingers[2].x = Portrait.pageX + Portrait.width
    /\ fingers[2].y = Portrait.bottom - buttonStrip - 1
    /\ Colored("0", IdleColor)
    /\ Colored("1", IdleColor)

\* the session Pick Finger started last, the one the set flag belongs to
Newest(s) ==
    /\ Live(s)
    /\ \A t \in Slots : (t # s /\ Live(t)) => sessions[s].age < sessions[t].age

\* C16: the outcome callback of a session with a snapshot of K contacts runs
\* exactly K * selectionSpeed * numberOfCycles units after Pick Finger started
\* the session, and the flag that Pick Finger set is cleared exactly
\* cooldownTime units after that: while the session is there, a step other
\* than Reset that clears the flag is the session's own cooldown callback,
\* cooldownTime units after its outcome.  The times are those of callbacks
\* that the thread did not keep waiting.
C16_OutcomeAndCooldownOnTime ==
    [][\A s \in Slots :
          LET r == sessions[s]
              K == Len(r.activeFingers)
          IN  /\ (Outcome(s) /\ OnTime) =>
                    r.age = K * selectionSpeed * numberOfCycles
              /\ (Newest(s) /\ selecting /\ ~selecting' /\ ~handleRestart) =>
                    /\ Cooldown(s)
                    /\ OnTime =>
                          r.age = K * selectionSpeed * numberOfCycles + cooldownTime]_vars

\* what Reset leaves behind
Cleared ==
    /\ fingers = <<>>
    /\ fingerColors = EmptyMap
    /\ winnerIndex = Null
    /\ ~selecting

\* C17: after Reset, with no touch-start and no Pick Finger since, the
\* registry, the color map and the winner index are cleared and selecting is
\* false, and a timer callback of a session that was running when Reset was
\* invoked leaves all four as they are.
C17_ResetSilencesTimers ==
    [][\A s \in Slots : (Cleared /\ Timer(s)) => Cleared']_vars

\* C18: from the Pick Finger call that starts a session until that session's
\* own cooldown callback or Reset, selecting is true: a step that clears the
\* flag while the session that set it is there is Reset or that session's
\* cooldown callback, never the cooldown callback of an earlier session that
\* Reset left running.
C18_OnlyOwnCooldownClears ==
    [][\A s \in Slots :
          (Newest(s) /\ selecting /\ ~selecting') =>
              (handleRestart \/ Cooldown(s))]_vars

(* Rendering *)

getBorderColor(fingerId) ==
    IF Colored(fingerId, WinnerColor) \/ Colored(fingerId, WinnerColorAlt)
    THEN "#ffcc00"
    ELSE "white"

getBorderWidth(fingerId) ==
    IF Colored(fingerId, WinnerColor) \/ Colored(fingerId, WinnerColorAlt)
    THEN 6
    ELSE 4

\* C19: at most one contact of the registry has a winner color variant in the
\* color map, so at most one contact is drawn with the accent border and the
\* thick stroke.
C19_OneAccentBorder ==
    Cardinality({i \in 1..Len(fingers) :
                    \/ getBorderColor(fingers[i].id) = "#ffcc00"
                    \/ getBorderWidth(fingers[i].id) = 6}) <= 1

\* C20: while selecting is true a touch-start is ignored entirely: it adds and
\* replaces no contact, changes no entry of the color map and does not start
\* the tap cue, wherever its touches are.  No step that changes a variable
\* while selecting is true is a touch-start.
C20_TouchStartIgnoredWhileSelecting ==
    [][(selecting /\ vars' # vars) =>
          \A touches \in TouchLists : ~onPanResponderGrant(touches)]_vars

\* a session in mid-cycle with both contacts registered and the tap cue of the
\* touch-start before it played to its end: a touch-start inside the bounds
\* here would restart the cue and reset a highlighted contact to idle
C20_Witness ==
    /\ selecting
    /\ tapSound = "stopped"
    /\ Len(fingers) = 2
    /\ \E k \in DOMAIN fingerColors : fingerColors[k] = HighlightColor
    /\ \E s \in Slots :
          /\ Live(s)
          /\ sessions[s].visits = <<1, 2>>

=============================================================================
